---- MODULE Spec2Model ----
(***************************************************************************)
(* Smart sorting of page names (src/src/utils/smartSort.ts).               *)
(*                                                                         *)
(* A label is a JavaScript string, modelled as the sequence of its UTF-16  *)
(* code units (integers).  sortPagesSmartly is modelled as a state machine *)
(* stepping through its for-loop; sortSection and smartSortRegular are     *)
(* operators computed the way the code computes them.                      *)
(***************************************************************************)
EXTENDS Integers, Sequences, FiniteSets, TLC

VARIABLES names, idx, currentSection, result, flushed, pc, call,
          pages, previousOrder, posted, msg, before

sortVars == <<names, idx, currentSection, result, flushed, pc, call>>

pageVars == <<pages, previousOrder, posted, msg, before>>

vars == <<sortVars, pageVars>>

(***************************************************************************)
(* Bounds of the model.                                                    *)
(***************************************************************************)
\* longest input list handed to the first call of sortPagesSmartly
MaxLen == 3
\* number of successive calls of sortPagesSmartly, each on the former result
MaxCalls == 2
\* longest input list of the suffix-chain inputs
MaxChainLen == 3
\* most pages of the document
MaxPages == 3
\* longest list of names of a 'reorder-pages' message
MaxNames == 2

(***************************************************************************)
(* The labels the inputs are drawn from, as UTF-16 code units.             *)
(***************************************************************************)
\* ""
Blank == <<>>
\* "b " (trailing space)
BSpace == <<98, 32>>
\* "---"
Dashes == <<45, 45, 45>>
\* "x ---"
XDashes == <<120, 32, 45, 45, 45>>
\* "7"
Seven == <<55>>
\* "Card"
Card == <<67, 97, 114, 100>>
\* "Space Card"
SpaceCard == <<83, 112, 97, 99, 101, 32, 67, 97, 114, 100>>
\* "Deep Space Card"
DeepSpaceCard == <<68, 101, 101, 112, 32, 83, 112, 97, 99, 101, 32, 67, 97, 114, 100>>
\* "zebra"
Zebra == <<122, 101, 98, 114, 97>>
\* "ALPHA"
Alpha == <<65, 76, 80, 72, 65>>
\* "beta"
Beta == <<98, 101, 116, 97>>
\* U+1F600 (surrogate pair D83D DE00), space, "a"
EmojiA == <<55357, 56832, 32, 97>>
\* U+2605 (black star), space, "a"
StarA == <<9733, 32, 97>>

Labels ==
    { Blank, BSpace, Dashes, XDashes, Seven, Card, SpaceCard, DeepSpaceCard,
      Zebra, Alpha, Beta, EmojiA, StarA }

RECURSIVE SeqsUpTo(_)
SeqsUpTo(n) ==
    IF n = 0 THEN { <<>> }
    ELSE LET shorter == SeqsUpTo(n - 1)
         IN  shorter \cup { Append(s, l) : s \in { t \in shorter : Len(t) = n - 1 }, l \in Labels }

Inputs == SeqsUpTo(MaxLen)

\* " "
OneSpace == <<32>>
\* "x  " (two trailing spaces)
XTwoSpaces == <<120, 32, 32>>
\* "Space Card " (trailing space)
SpaceCardSp == <<83, 112, 97, 99, 101, 32, 67, 97, 114, 100, 32>>

\* labels that are suffixes of one another, with and without outer white space
ChainLabels ==
    { Blank, OneSpace, XTwoSpaces, Card, SpaceCard, DeepSpaceCard, SpaceCardSp, Dashes }

RECURSIVE ChainSeqsUpTo(_)
ChainSeqsUpTo(n) ==
    IF n = 0 THEN { <<>> }
    ELSE LET shorter == ChainSeqsUpTo(n - 1)
         IN  shorter \cup { Append(s, l) : s \in { t \in shorter : Len(t) = n - 1 }, l \in ChainLabels }

ChainInputs == ChainSeqsUpTo(MaxChainLen)

(***************************************************************************)
(* String primitives of the JavaScript runtime.                            *)
(***************************************************************************)
\* WhiteSpace and LineTerminator code units, as removed by String.prototype.trim
IsWhiteSpace(c) ==
    \/ c \in {9, 10, 11, 12, 13, 32, 160, 5760, 8232, 8233, 8239, 8287, 12288, 65279}
    \/ c \in 8192..8202

RECURSIVE TrimStart(_)
TrimStart(s) ==
    IF s # <<>> /\ IsWhiteSpace(Head(s)) THEN TrimStart(Tail(s)) ELSE s

RECURSIVE TrimEnd(_)
TrimEnd(s) ==
    IF s # <<>> /\ IsWhiteSpace(s[Len(s)]) THEN TrimEnd(SubSeq(s, 1, Len(s) - 1)) ELSE s

trim(s) == TrimEnd(TrimStart(s))

endsWith(s, suffix) ==
    /\ Len(suffix) <= Len(s)
    /\ SubSeq(s, Len(s) - Len(suffix) + 1, Len(s)) = suffix

includes(seq, x) == \E i \in 1..Len(seq) : seq[i] = x

(***************************************************************************)
(* a.localeCompare(b): the default (root) collation.  Primary weights      *)
(* order white space < hyphen < other symbols < digits < letters, letters  *)
(* regardless of case; on equal primary keys the tertiary (case) weights   *)
(* decide, lower case before upper case.  Code units outside ASCII share   *)
(* one symbol weight.                                                      *)
(***************************************************************************)
PrimaryWeight(c) ==
    IF c = 32 THEN 1
    ELSE IF c = 45 THEN 2
    ELSE IF c \in 48..57 THEN 10 + (c - 48)
    ELSE IF c \in 65..90 THEN 20 + (c - 65)
    ELSE IF c \in 97..122 THEN 20 + (c - 97)
    ELSE 3

TertiaryWeight(c) == IF c \in 65..90 THEN 1 ELSE 0

PrimaryKey(s) == [i \in 1..Len(s) |-> PrimaryWeight(s[i])]

TertiaryKey(s) == [i \in 1..Len(s) |-> TertiaryWeight(s[i])]

CompareKeys(x, y) ==
    LET n    == IF Len(x) < Len(y) THEN Len(x) ELSE Len(y)
        diff == { i \in 1..n : x[i] # y[i] }
    IN  IF diff = {}
        THEN (IF Len(x) < Len(y) THEN -1 ELSE IF Len(x) > Len(y) THEN 1 ELSE 0)
        ELSE LET i == CHOOSE j \in diff : \A k \in diff : j <= k
             IN  IF x[i] < y[i] THEN -1 ELSE 1

localeCompare(a, b) ==
    LET p == CompareKeys(PrimaryKey(a), PrimaryKey(b))
    IN  IF p # 0 THEN p ELSE CompareKeys(TertiaryKey(a), TertiaryKey(b))

\* the element is left where it was pushed, not moved to its sorted place
InsertSorted_Appended(s, x) == Append(s, x)

\* Array.prototype.sort((a, b) => a.localeCompare(b)): a stable sort
InsertSorted(s, x) ==
    LET k == Cardinality({ i \in 1..Len(s) : localeCompare(s[i], x) <= 0 })
    IN  SubSeq(s, 1, k) \o <<x>> \o SubSeq(s, k + 1, Len(s))

RECURSIVE sort(_)
sort(s) ==
    IF s = <<>> THEN <<>>
    ELSE InsertSorted(sort(SubSeq(s, 1, Len(s) - 1)), s[Len(s)])

(***************************************************************************)
(* Classification.                                                         *)
(***************************************************************************)
\* /^[-]+$/.test(name.trim())
isDivider(name) ==
    LET trimmed == trim(name)
    IN  Len(trimmed) >= 1 /\ \A i \in 1..Len(trimmed) : trimmed[i] = 45

\* emojiRegex.test(s): the regex has no u flag, so it matches code units;
\* a surrogate alternative needs two consecutive code units of s
emojiRegexTest(s) ==
    \E i \in 1..Len(s) :
        \/ s[i] \in {169, 174}
        \/ s[i] \in 8192..13056
        \/ /\ s[i] \in {55356, 55357, 55358}
           /\ i + 1 <= Len(s)
           /\ s[i + 1] \in 53248..57343

hasUpperCase(s) == \E i \in 1..Len(s) : s[i] \in 65..90

hasLowerCase(s) == \E i \in 1..Len(s) : s[i] \in 97..122

isStickyHeader(name) ==
    LET trimmed == trim(name)
    IN  IF Len(trimmed) = 0 THEN FALSE
        ELSE IF emojiRegexTest(<<trimmed[1]>>) THEN TRUE
        ELSE hasUpperCase(trimmed) /\ ~hasLowerCase(trimmed)

\* only a divider breaks the sequence
isSequenceBreaker_DividerOnly(name) == isDivider(name)

isSequenceBreaker(name) == isDivider(name) \/ isStickyHeader(name)

(***************************************************************************)
(* smartSortRegular.                                                       *)
(***************************************************************************)
\* the value null of 'bestParent'
Null == <<-1>>

\* JavaScript truthiness of a 'string | null': null and "" are falsy
Truthy(x) == x # Null /\ x # <<>>

\* new Set(items), in insertion order
RECURSIVE potentialParents(_)
potentialParents(items) ==
    IF items = <<>> THEN <<>>
    ELSE LET front == potentialParents(SubSeq(items, 1, Len(items) - 1))
             last  == items[Len(items)]
         IN  IF includes(front, last) THEN front ELSE Append(front, last)

\* the longest candidate wins
betterParent_Longest(p, best) == ~Truthy(best) \/ Len(p) > Len(best)

\* the candidate test of the inner loop
betterParent(p, best) == ~Truthy(best) \/ Len(p) < Len(best)

\* the inner loop over potentialParents, from the candidates 'pp' still to visit
RECURSIVE scanParents(_, _, _)
scanParents(item, pp, best) ==
    IF pp = <<>> THEN best
    ELSE LET p == Head(pp)
         IN  IF item = p THEN scanParents(item, Tail(pp), best)
             ELSE IF /\ endsWith(item, <<32>> \o p)
                     /\ betterParent(p, best)
                  THEN scanParents(item, Tail(pp), p)
                  ELSE scanParents(item, Tail(pp), best)

bestParent(item, items) == scanParents(item, potentialParents(items), Null)

\* Map Child -> Parent
relationships(items) ==
    [ x \in { items[i] : i \in { j \in 1..Len(items) : Truthy(bestParent(items[j], items)) } }
        |-> bestParent(x, items) ]

parents(items) ==
    LET rel == relationships(items) IN { rel[x] : x \in DOMAIN rel }

\* the categorize loop: roots (pushed once), children per parent, orphans
roots(items) ==
    LET par == parents(items)
    IN  potentialParents(SelectSeq(items, LAMBDA x : x \in par))

parentMap(items, p) ==
    LET par == parents(items)
        rel == relationships(items)
    IN  SelectSeq(items, LAMBDA x : x \notin par /\ x \in DOMAIN rel /\ rel[x] = p)

orphans(items) ==
    LET par == parents(items)
        rel == relationships(items)
    IN  SelectSeq(items, LAMBDA x : x \notin par /\ x \notin DOMAIN rel)

allTopLevel(items) == sort(sort(roots(items)) \o sort(orphans(items)))

\* the construction loop over allTopLevel
RECURSIVE construct(_, _)
construct(top, items) ==
    IF top = <<>> THEN <<>>
    ELSE LET item == Head(top)
         IN  <<item>>
             \o (IF item \in parents(items) THEN sort(parentMap(items, item)) ELSE <<>>)
             \o construct(Tail(top), items)

smartSortRegular(items) == construct(allTopLevel(items), items)

(***************************************************************************)
(* sortSection.                                                            *)
(***************************************************************************)
sticky(items) == SelectSeq(items, isStickyHeader)

regular(items) == SelectSeq(items, LAMBDA x : ~isStickyHeader(x))

\* the sticky items are put after the sorted regular items
sortSection_StickyLast(items) == smartSortRegular(regular(items)) \o sticky(items)

sortSection(items) == sticky(items) \o smartSortRegular(regular(items))

(***************************************************************************)
(* sortPagesSmartly as a state machine.                                    *)
(*   names           the argument of the running call                      *)
(*   idx             position of the for-loop in names (1-based)           *)
(*   currentSection  labels accumulated since the last flush               *)
(*   result          the output built so far                               *)
(*   flushed         the sections flushed so far, each with its sorted     *)
(*                   form as pushed onto result                           *)
(*   pc              "loop" while the call runs, "done" once it returned   *)
(*   call            number of the running call                            *)
(***************************************************************************)
\* flushSection: what it leaves in result
flushSection(res, section) ==
    IF Len(section) > 0 THEN res \o sortSection(section) ELSE res

\* flushSection: the record of the sortSection call it makes
flushRecord(fl, section) ==
    IF Len(section) > 0
    THEN Append(fl, [in |-> section, out |-> sortSection(section)])
    ELSE fl

\* the plugin's main thread is not part of the sorting runs
PagesIdle ==
    /\ pages = <<>>
    /\ previousOrder = <<>>
    /\ posted = "none"
    /\ msg = [type |-> "none", names |-> <<>>]
    /\ before = <<>>

Init ==
    /\ names \in Inputs
    /\ idx = 1
    /\ currentSection = <<>>
    /\ result = <<>>
    /\ flushed = <<>>
    /\ pc = "loop"
    /\ call = 1
    /\ PagesIdle

\* loop body, name is a breaker: flush the old section, start a new one
LoopBreaker ==
    /\ pc = "loop"
    /\ idx <= Len(names)
    /\ isSequenceBreaker(names[idx])
    /\ result' = flushSection(result, currentSection)
    /\ flushed' = flushRecord(flushed, currentSection)
    /\ currentSection' = <<names[idx]>>
    /\ idx' = idx + 1
    /\ UNCHANGED <<names, pc, call>>
    /\ UNCHANGED pageVars

\* the label is accumulated but the loop does not move past it
LoopRegular_NoAdvance ==
    /\ pc = "loop"
    /\ idx <= Len(names)
    /\ ~isSequenceBreaker(names[idx])
    /\ currentSection' = Append(currentSection, names[idx])
    /\ UNCHANGED <<names, idx, result, flushed, pc, call>>
    /\ UNCHANGED pageVars

\* loop body, name is not a breaker: accumulate
LoopRegular ==
    /\ pc = "loop"
    /\ idx <= Len(names)
    /\ ~isSequenceBreaker(names[idx])
    /\ currentSection' = Append(currentSection, names[idx])
    /\ idx' = idx + 1
    /\ UNCHANGED <<names, result, flushed, pc, call>>
    /\ UNCHANGED pageVars

\* after the loop: the final flush and the return
Return ==
    /\ pc = "loop"
    /\ idx > Len(names)
    /\ result' = flushSection(result, currentSection)
    /\ flushed' = flushRecord(flushed, currentSection)
    /\ currentSection' = <<>>
    /\ pc' = "done"
    /\ UNCHANGED <<names, idx, call>>
    /\ UNCHANGED pageVars

\* the caller sorts the returned list again
SortAgain ==
    /\ pc = "done"
    /\ call < MaxCalls
    /\ names' = result
    /\ idx' = 1
    /\ currentSection' = <<>>
    /\ result' = <<>>
    /\ flushed' = <<>>
    /\ pc' = "loop"
    /\ call' = call + 1
    /\ UNCHANGED pageVars

Next == LoopBreaker \/ LoopRegular \/ Return \/ SortAgain

Spec == Init /\ [][Next]_vars

\* the same calls, on lists of labels that are suffixes of one another
ChainInit ==
    /\ names \in ChainInputs
    /\ idx = 1
    /\ currentSection = <<>>
    /\ result = <<>>
    /\ flushed = <<>>
    /\ pc = "loop"
    /\ call = 1
    /\ PagesIdle

ChainSpec == ChainInit /\ [][Next]_vars

(***************************************************************************)
(* The plugin's main thread (src/src/code/code.ts).                        *)
(*   pages          figma.root.children: the pages, each with id and name  *)
(*   previousOrder  the saved ids                                          *)
(*   posted         type of the last message posted to the UI              *)
(*   msg            the last message received from the UI                  *)
(*   before         the pages as they were when the most recent            *)
(*                  'reorder-pages' arrived; empty before the first        *)
(***************************************************************************)
\* "a"
LowerA == <<97>>
\* " a" (leading space)
SpaceA == <<32, 97>>
\* "a " (trailing space)
ASpace == <<97, 32>>
\* "b"
LowerB == <<98>>

\* names of the pages of the document at start
PageNames == { LowerA, SpaceA, LowerB }

\* entries of the names of a 'reorder-pages' message
NameEntries == { LowerA, ASpace, LowerB, OneSpace }

\* the documents at start: one or two pages, ids in creation order
InitialPages ==
    { <<[id |-> 1, name |-> n]>> : n \in PageNames }
        \cup { <<[id |-> 1, name |-> n], [id |-> 2, name |-> m]>> : n \in PageNames, m \in PageNames }

RECURSIVE NameSeqsUpTo(_)
NameSeqsUpTo(n) ==
    IF n = 0 THEN { <<>> }
    ELSE LET shorter == NameSeqsUpTo(n - 1)
         IN  shorter \cup { Append(q, l) : q \in { t \in shorter : Len(t) = n - 1 }, l \in NameEntries }

NameLists == NameSeqsUpTo(MaxNames)

\* figma.root.children.map(p => p.id)
pageIds(ps) == [i \in 1..Len(ps) |-> ps[i].id]

\* figma.root.insertChild(index, page) for a page of the document: the page
\* is taken out of the children and put at the 0-based index
insertChild(ps, index, page) ==
    LET others == SelectSeq(ps, LAMBDA q : q.id # page.id)
    IN  SubSeq(others, 1, index) \o <<page>> \o SubSeq(others, index + 1, Len(others))

\* figma.createPage(): a new page with a fresh id, appended to the document
createPage(ps) == [id |-> Len(ps) + 1, name |-> <<>>]

\* the key of a page in nameMap is its name as it was found
nameKey_Untrimmed(name) == name

\* the key of a page in nameMap
nameKey(name) == trim(name)

\* nameMap: trimmed name -> the pages (ids) of that name, in document order
buildNameMap(ps) ==
    [ n \in { nameKey(ps[i].name) : i \in 1..Len(ps) }
        |-> pageIds(SelectSeq(ps, LAMBDA q : nameKey(q.name) = n)) ]

\* the page of the document with the given id
pageOf(ps, id) == ps[CHOOSE i \in 1..Len(ps) : ps[i].id = id]

\* the loop "3. Reorder & Create" over the names still to visit
RECURSIVE reorderLoop(_, _, _, _)
reorderLoop(rest, ps, nameMap, currentIndex) ==
    IF rest = <<>> THEN ps
    ELSE LET name == trim(Head(rest))
         IN  IF name = <<>> THEN reorderLoop(Tail(rest), ps, nameMap, currentIndex)
             ELSE IF name \in DOMAIN nameMap /\ Len(nameMap[name]) > 0
             THEN LET pageToMove == pageOf(ps, Head(nameMap[name]))
                      renamed    == [pageToMove EXCEPT !.name = name]
                  IN  reorderLoop(Tail(rest),
                                  insertChild(ps, currentIndex, renamed),
                                  [nameMap EXCEPT ![name] = Tail(@)],
                                  currentIndex + 1)
             ELSE LET newPage == [createPage(ps) EXCEPT !.name = name]
                  IN  reorderLoop(Tail(rest),
                                  insertChild(Append(ps, newPage), currentIndex, newPage),
                                  nameMap,
                                  currentIndex + 1)

\* reorderPages: the document it leaves
reorderPages(ps, newNames) == reorderLoop(newNames, ps, buildNameMap(ps), 0)

\* the loop of restoreOrder over the ids still to visit
RECURSIVE restoreLoop(_, _, _)
restoreLoop(ps, ids, currentIndex) ==
    IF ids = <<>> THEN ps
    ELSE IF \E i \in 1..Len(ps) : ps[i].id = Head(ids)
         THEN restoreLoop(insertChild(ps, currentIndex, pageOf(ps, Head(ids))),
                          Tail(ids), currentIndex + 1)
         ELSE restoreLoop(ps, Tail(ids), currentIndex)

restoreOrder(ps, ids) == restoreLoop(ps, ids, 0)

\* the sorting runs are not part of the plugin's main thread
SortIdle ==
    /\ names = <<>>
    /\ idx = 1
    /\ currentSection = <<>>
    /\ result = <<>>
    /\ flushed = <<>>
    /\ pc = "done"
    /\ call = 1

PagesInit ==
    /\ pages \in InitialPages
    /\ previousOrder = <<>>
    /\ posted = "none"
    /\ msg = [type |-> "none", names |-> <<>>]
    /\ before = <<>>
    /\ SortIdle

\* onmessage, msg.type === 'get-pages'
GetPages ==
    /\ msg' = [type |-> "get-pages", names |-> <<>>]
    /\ posted' = "init-pages"
    /\ UNCHANGED <<pages, previousOrder, before>>
    /\ UNCHANGED sortVars

\* onmessage, msg.type === 'reorder-pages'
ReorderPagesMsg ==
    \E newNames \in NameLists :
        /\ Len(reorderPages(pages, newNames)) <= MaxPages
        /\ msg' = [type |-> "reorder-pages", names |-> newNames]
        /\ previousOrder' = pageIds(pages)
        /\ pages' = reorderPages(pages, newNames)
        /\ posted' = "reorder-complete"
        /\ before' = pages
        /\ UNCHANGED sortVars

\* the order is restored without testing that one is saved
RestoreOrderMsg_Unguarded ==
    /\ msg' = [type |-> "restore-order", names |-> <<>>]
    /\ pages' = restoreOrder(pages, previousOrder)
    /\ posted' = "order-restored"
    /\ UNCHANGED <<previousOrder, before>>
    /\ UNCHANGED sortVars

\* onmessage, msg.type === 'restore-order', an order is saved
RestoreOrderMsg ==
    /\ Len(previousOrder) > 0
    /\ msg' = [type |-> "restore-order", names |-> <<>>]
    /\ pages' = restoreOrder(pages, previousOrder)
    /\ posted' = "order-restored"
    /\ UNCHANGED <<previousOrder, before>>
    /\ UNCHANGED sortVars

\* onmessage, msg.type === 'restore-order', no order is saved
RestoreOrderError ==
    /\ ~(Len(previousOrder) > 0)
    /\ msg' = [type |-> "restore-order", names |-> <<>>]
    /\ posted' = "error"
    /\ UNCHANGED <<pages, previousOrder, before>>
    /\ UNCHANGED sortVars

PagesNext == GetPages \/ ReorderPagesMsg \/ RestoreOrderMsg \/ RestoreOrderError

PagesSpec == PagesInit /\ [][PagesNext]_vars

(***************************************************************************)
(* Properties.                                                             *)
(***************************************************************************)
Count(seq, x) == Cardinality({ i \in 1..Len(seq) : seq[i] = x })

Range(seq) == { seq[i] : i \in 1..Len(seq) }

SameBag(a, b) == \A x \in Range(a) \cup Range(b) : Count(a, x) = Count(b, x)

RECURSIVE Flatten(_)
Flatten(ss) == IF ss = <<>> THEN <<>> ELSE Head(ss) \o Flatten(Tail(ss))

Ins == [k \in 1..Len(flushed) |-> flushed[k].in]

Outs == [k \in 1..Len(flushed) |-> flushed[k].out]

\* C1: when a call has returned, the multiset of the returned labels equals
\* the multiset of the labels it was given: nothing dropped, duplicated,
\* inserted or altered.
C1_Permutation == pc = "done" => SameBag(result, names)

\* C2: sorting the result of a call again returns that result unchanged.
C2_Idempotent == (pc = "done" /\ call > 1) => result = names

\* C3: the output is the concatenation, in input order, of the sorted
\* segments, a segment beginning at every breaker, and two breakers adjacent
\* in the input are adjacent, in the same order, in the output.
C3_SegmentsPreserved ==
    pc = "done" =>
        /\ Flatten(Ins) = names
        /\ result = Flatten(Outs)
        /\ \A k \in 1..Len(flushed) :
              /\ Ins[k] # <<>>
              /\ k > 1 => isSequenceBreaker(Ins[k][1])
              /\ \A i \in 2..Len(Ins[k]) : ~isSequenceBreaker(Ins[k][i])
        /\ \A i \in 1..(Len(names) - 1) :
              (isSequenceBreaker(names[i]) /\ isSequenceBreaker(names[i + 1]))
                  => \E j \in 1..(Len(result) - 1) :
                        result[j] = names[i] /\ result[j + 1] = names[i + 1]

C5_BreakerLeads ==
    \A k \in 1..Len(flushed) :
        isSequenceBreaker(Ins[k][1]) =>
            /\ Outs[k][1] = Ins[k][1]
            /\ \A i \in 2..Len(Outs[k]) : Outs[k][i] # Ins[k][1]

\* the candidate parents of x among the regular items of a segment
Candidates(x, items) ==
    { p \in Range(items) : p # x /\ endsWith(x, <<32>> \o p) }

\* C6: every regular label with at least one candidate parent is bound to a
\* candidate of the shortest length; with "Card", "Space Card" and
\* "Deep Space Card" both longer labels are bound to "Card".
C6_ShortestCandidate ==
    \A k \in 1..Len(flushed) :
        LET items == regular(Ins[k])
            rel   == relationships(items)
        IN  \A x \in Range(items) :
                Candidates(x, items) # {} =>
                    /\ x \in DOMAIN rel
                    /\ rel[x] \in Candidates(x, items)
                    /\ \A p \in Candidates(x, items) : Len(rel[x]) <= Len(p)

\* the regular part of a segment's output
RegularOut(k) == SubSeq(Outs[k], Len(sticky(Ins[k])) + 1, Len(Outs[k]))

IsChild(x, items) == x \in DOMAIN relationships(items) /\ x \notin parents(items)

\* C7: in the regular part of every segment of the output the top-level
\* labels (roots and orphans) are in ascending localeCompare order, every
\* child stands in the run directly after its root, the children of a root
\* are in ascending order and all present, and no child follows an orphan.
C7_TopLevelOrder ==
    \A k \in 1..Len(flushed) :
        LET items == regular(Ins[k])
            o     == RegularOut(k)
            top   == { i \in 1..Len(o) : ~IsChild(o[i], items) }
        IN  /\ \A i, j \in top : i < j => localeCompare(o[i], o[j]) <= 0
            /\ \A i \in 1..Len(o) :
                  IsChild(o[i], items) =>
                      /\ \E j \in top :
                            /\ j < i
                            /\ \A m \in top : m < i => m <= j
                            /\ o[j] = relationships(items)[o[i]]
                      /\ IsChild(o[i - 1], items) => localeCompare(o[i - 1], o[i]) <= 0
            /\ \A x \in Range(items) :
                  IsChild(x, items) => Count(o, x) = Count(items, x)

C7_Witness ==
    \E k \in 1..Len(flushed) :
        LET items == regular(Ins[k])
            o     == RegularOut(k)
        IN  /\ Len(o) = 3
            /\ o # items
            /\ IsChild(o[2], items)
            /\ ~IsChild(o[3], items)

\* C8: no divider is a parent of another label and no divider is bound as a
\* child of another label.
C8_DividerNotGrouped ==
    \A k \in 1..Len(flushed) :
        LET items == regular(Ins[k])
        IN  \A x \in Range(items) :
                isDivider(x) =>
                    /\ x \notin parents(items)
                    /\ x \notin DOMAIN relationships(items)

\* C9: the output of every segment starts with the segment's sticky headers,
\* unchanged and in their input order, and every label after them is not
\* sticky.
C9_StickyFirst ==
    \A k \in 1..Len(flushed) :
        LET pos == { i \in 1..Len(Ins[k]) : isStickyHeader(Ins[k][i]) }
            n   == Cardinality(pos)
        IN  /\ Len(Outs[k]) >= n
            /\ \A i \in 1..n :
                  \E p \in pos :
                      /\ Cardinality({ q \in pos : q <= p }) = i
                      /\ Outs[k][i] = Ins[k][p]
            /\ \A i \in (n + 1)..Len(Outs[k]) : ~isStickyHeader(Outs[k][i])

C9_Witness ==
    \E k \in 1..Len(flushed) :
        /\ Len(Ins[k]) = 3
        /\ isStickyHeader(Ins[k][1])
        /\ Outs[k] # Ins[k]

\* the emoji/symbol test on the first character of a trimmed label, a
\* surrogate pair counting as one character
FirstCharIsEmoji(trimmed) ==
    \/ trimmed[1] \in {169, 174}
    \/ trimmed[1] \in 8192..13056
    \/ /\ trimmed[1] \in {55356, 55357, 55358}
       /\ Len(trimmed) >= 2
       /\ trimmed[2] \in 53248..57343

StickyAsSpecified(label) ==
    LET trimmed == trim(label)
    IN  /\ Len(trimmed) > 0
        /\ \/ FirstCharIsEmoji(trimmed)
           \/ hasUpperCase(trimmed) /\ ~hasLowerCase(trimmed)

\* C10: isStickyHeader is true exactly for the labels that are non-empty
\* after trimming and either start with an emoji/symbol (surrogate pairs
\* included) or have an upper-case and no lower-case Latin letter; such a
\* label starts a new segment (checked on the labels the loop has classified).
C10_StickyClassification ==
    /\ \A i \in 1..(idx - 1) : isStickyHeader(names[i]) <=> StickyAsSpecified(names[i])
    /\ \A k \in 1..Len(flushed) :
          \A i \in 2..Len(Ins[k]) : ~StickyAsSpecified(Ins[k][i])

\* C11: a regular label X with leading or trailing white space whose trimmed
\* form ends with " " + P, for another regular label P of its segment, is
\* bound to a parent and emitted as a child, not as an orphan.
C11_TrimmedMatch ==
    \A k \in 1..Len(flushed) :
        LET items == regular(Ins[k])
        IN  \A x \in Range(items) :
                (/\ trim(x) # x
                 /\ \E p \in Range(items) : p # x /\ endsWith(trim(x), <<32>> \o p))
                    => IsChild(x, items)

\* C14: in every segment no label is both a bound parent and a bound child:
\* a label in 'parents' has no entry in 'relationships', so the children
\* listed under a root are never roots themselves.
C14_ParentNeverChild ==
    \A k \in 1..Len(flushed) :
        LET items == regular(Ins[k])
        IN  /\ parents(items) \cap DOMAIN relationships(items) = {}
            /\ \A p \in parents(items) :
                  \A i \in 1..Len(parentMap(items, p)) :
                      parentMap(items, p)[i] \notin parents(items)

C14_Witness ==
    \E k \in 1..Len(flushed) :
        LET items == regular(Ins[k])
        IN  /\ Card \in parents(items)
            /\ SpaceCard \in DOMAIN relationships(items)
            /\ DeepSpaceCard \in DOMAIN relationships(items)
            /\ Candidates(DeepSpaceCard, items) = {Card, SpaceCard}

\* C12: a call of sortPagesSmartly terminates and returns a sequence: every
\* step of a running call either moves the loop one label forward or, once
\* the n labels are consumed, returns; what it returns holds only labels of
\* the input, and for the empty input it is the empty sequence.
C12_Total ==
    [][ pc = "loop" =>
          /\ idx \in 1..(Len(names) + 1)
          /\ \/ /\ idx <= Len(names)
                /\ pc' = "loop"
                /\ idx' = idx + 1
             \/ /\ idx = Len(names) + 1
                /\ pc' = "done"
                /\ \A i \in 1..Len(result') : result'[i] \in Range(names)
                /\ names = <<>> => result' = <<>> ]_vars

C12_Witness ==
    /\ pc = "done"
    /\ call = 1
    /\ names = <<Blank, OneSpace, Blank>>
    /\ Len(result) = 3

\* the trimmed non-blank entries of newNames, in order
Wanted(newNames) ==
    SelectSeq([i \in 1..Len(newNames) |-> trim(newNames[i])], LAMBDA n : n # <<>>)

IdSet(ps) == { ps[i].id : i \in 1..Len(ps) }

\* what C13 says of the document 'new' left by reorderPages(newNames) on 'old'
ReorderedAsClaimed(old, new, newNames) ==
    LET want    == Wanted(newNames)
        k       == Len(want)
        matched == { new[i].id : i \in 1..k } \cap IdSet(old)
    IN  /\ Len(new) >= k
        /\ \A i \in 1..k : new[i].name = want[i]
        /\ \A i, j \in 1..Len(new) : new[i].id = new[j].id => i = j
        /\ \A i \in 1..k :
              LET nth   == Cardinality({ j \in 1..i : want[j] = want[i] })
                  avail == { q \in 1..Len(old) : trim(old[q].name) = want[i] }
              IN  IF nth <= Cardinality(avail)
                  THEN \E q \in avail : old[q].id = new[i].id
                  ELSE new[i].id \notin IdSet(old)
        /\ SubSeq(new, k + 1, Len(new)) = SelectSeq(old, LAMBDA q : q.id \notin matched)
        /\ IdSet(old) \subseteq IdSet(new)

C15_Restore ==
    [][ msg'.type = "restore-order" =>
          IF before = <<>>
          THEN pages' = pages /\ posted' = "error"
          ELSE /\ posted' = "order-restored"
               /\ Len(pages') = Len(pages)
               /\ pageIds(SubSeq(pages', 1, Len(before))) = pageIds(before)
               /\ IdSet(pages') = IdSet(pages)
               /\ \A i \in (Len(before) + 1)..Len(pages') : pages'[i].id \notin IdSet(before) ]_vars

C15_Witness ==
    /\ posted = "order-restored"
    /\ Len(before) = 2
    /\ Len(pages) = 3
    /\ pageIds(pages) = <<1, 2, 3>>
    /\ pages[1].name # before[1].name

====
